---- MODULE Spec2Model ----
(***************************************************************************)
(* linkmeup: one SOCKS5 tunnel (an external `tsh ssh` process) per         *)
(* installation, a probe loop per Proxy that fails over to another node    *)
(* when a probe fails, and a shutdown path that stops every Proxy.         *)
(*                                                                         *)
(* Threads: the main goroutine (startProxies, then the TUI), one probe     *)
(* loop goroutine per Proxy (PingConstantly), and the shutdown goroutine   *)
(* (stopProxies followed by os.Exit).  Proxy.Stop is called by a probe     *)
(* loop and by the shutdown goroutine on the same Proxy without any        *)
(* synchronisation, so Stop is modelled statement by statement: the nil    *)
(* check (line 202), the kill (lines 206-211) and the clearing of the      *)
(* fields (lines 213-214).  The other methods of a Proxy are only ever     *)
(* called by its constructor and by its own probe loop.                    *)
(***************************************************************************)
EXTENDS Integers, Sequences, FiniteSets, TLC

\* ---- bounds ----
NumProxies == 2      \* installations in the configuration
MaxNodes == 2        \* longest node list `tsh ls` returns
MaxPid == 3          \* process slots of the host: launches beyond it fail
MaxTicks == 2        \* ticks of the probe tickers during the run
MaxText == 3         \* longest text `tsh ls` writes to a stream, in characters
MaxLoops == 2        \* calls of PingConstantly on one Proxy

\* ---- program constants ----
InitialStartPort == 1080
MinSuccessStatus == 200
MinFailureStatus == 500

Proxies == 1..NumProxies
Nodes == {"n1", "n2"}
NoNode == ""
Nil == 0

\* Domains that make the check URL one that url.Parse, and with it
\* http.NewRequestWithContext (line 296), rejects: a space in the host.
UnparsableDomains == {"gremlin example.com"}

\* Installations of the configuration file: name and domain may be empty, and
\* the domain is not validated.
Installations ==
    [name : {"", "gremlin"},
     domain : {"", "gremlin.example.com"} \cup UnparsableDomains]

\* Results of `tsh ls`: the empty list stands for an error or no nodes.  Node
\* names are interchangeable, so a list that is not empty starts with "n1";
\* a name may be listed twice.
NodeLists == {ns \in UNION {[1..n -> Nodes] : n \in 0..MaxNodes} :
                ns # <<>> => ns[1] = "n1"}

\* What http.Client.Do returns: a response, an error, or (when the redirect
\* policy gives up) the last response together with an error.
Outcomes(statuses) ==
    {[resp |-> FALSE, status |-> 0, err |-> TRUE]}
    \cup {[resp |-> TRUE, status |-> s, err |-> b] : s \in statuses, b \in BOOLEAN}

\* Probe outcomes of the probe loops: no response, or a 200.
ProbeOutcomes == {o \in Outcomes({200}) : o.resp => ~o.err}

\* Every HTTP status code, for the classification of a single probe.
AllStatuses == 100..599

\* lastPingResult == nil
NilResult == [success |-> FALSE, statusCode |-> -1, err |-> FALSE, resp |-> FALSE]

VARIABLES
    phase,          \* "starting", "serving", "running", "stopping", "exited",
                    \* "aborted", "panicked"
    startPort,      \* package variable startPort
    created,        \* number of Proxies startProxies has appended
    Port,           \* Proxy.Port
    nodes,          \* Proxy.nodes
    nodeActive,     \* Proxy.nodeActive
    process,        \* Proxy.process: the handle, an index into procs, Nil when nil
    healthy,        \* Proxy.healthy
    lastPingResult, \* Proxy.lastPingResult
    pc,             \* position of the probe loop goroutine of each Proxy
    sidx,           \* stopProxies: index of the Proxy being stopped
    spc,            \* stopProxies: position inside the Stop call
    srow,           \* the Stop call of stopProxies follows a Stop call on the
                    \* same Proxy, with no other call on it in between
    procs,          \* the tunnel processes each Proxy has launched: [node, alive]
    selected,       \* return value of the last selectNode call of each Proxy
    lastCall,       \* last method call completed on each Proxy
    killFailed,     \* some Kill call has returned an error
    ticks,          \* ticks of the probe tickers so far
    attempted,      \* Proxies on which stopProxies has called Stop
    stopErrs,       \* Proxies whose Stop returned an error to stopProxies
    fired,          \* times the ticker of the probe loop of each Proxy has fired
    logLine,        \* state-change line the last Ping of each Proxy logged:
                    \* "none", "healthy" or "unhealthy"
    startedSince,   \* Start was called on the Proxy more recently than Stop
    lastNew,        \* arguments and outcome of the last call of New
    Domain,         \* Proxy.Domain
    loops,          \* probe loop goroutines running for each Proxy
    cmd,            \* the `tsh ls` command getNodes has run: how it ended and
                    \* what it wrote
    ret             \* value returned by the last call of getNodes,
                    \* renderPacFile or countStatus

vars == <<phase, startPort, created, Port, nodes, nodeActive, process, healthy,
          lastPingResult, pc, sidx, spc, srow, procs, selected, lastCall,
          killFailed, ticks, attempted, stopErrs, fired, logLine,
          startedSince, lastNew, Domain, loops, cmd, ret>>

\* ---- helpers ----
Min(S) == CHOOSE x \in S : \A y \in S : x <= y

Range(s) == {s[i] : i \in 1..Len(s)}

\* tunnel processes launched by Proxy p that are alive
AliveOf(p) == {i \in 1..Len(procs[p]) : procs[p][i].alive}

RECURSIVE Sum(_, _)
Sum(f, S) == IF S = {} THEN 0
             ELSE LET x == CHOOSE y \in S : TRUE IN f[x] + Sum(f, S \ {x})

\* number of tunnel processes launched so far
Launched == Sum([p \in Proxies |-> Len(procs[p])], Proxies)

\* the goroutines run while the process is up
Up == phase \in {"starting", "serving", "running", "stopping"}

\* ---- New: validation (lines 68-77) ----
ValidConfigNoEndpoint(name, domain, checkEndpoint) ==
    name # "" /\ domain # ""

ValidConfig(name, domain, checkEndpoint) ==
    name # "" /\ domain # "" /\ checkEndpoint # ""

\* startProxies line 207: the check endpoint is built around the domain
CheckEndpoint(domain) == <<"https://happaapi.", domain, "/healthz">>

\* Ping, line 296: http.NewRequestWithContext returns a request for the
\* check endpoint of this domain
RequestBuilds(domain) == domain \notin UnparsableDomains

\* what a call of New was given and what it did: it returned an error, it
\* ran `tsh ls` (getNodes, line 85); afterErr: the call before it was rejected
NewReturn(name, domain, checkEndpoint, err) ==
    [called |-> TRUE, name |-> name, domain |-> domain,
     checkEndpoint |-> checkEndpoint, err |-> err, enumerated |-> ~err,
     afterErr |-> lastNew.err]

\* no command has been run, no function has returned
NoCmd == [ran |-> FALSE]

NoRet == [of |-> "none"]

\* New has not been called yet
NoCall ==
    [called |-> FALSE, name |-> "", domain |-> "", checkEndpoint |-> "",
     err |-> FALSE, enumerated |-> FALSE, afterErr |-> FALSE]

\* ---- New: port allocation (lines 79-80) ----
NextStartPortStuck(sp) == sp

NextStartPort(sp) == sp + 1

\* ---- selectNode (lines 119-140) ----
\* a swap that forgets the element it overwrites
SwapOverwrites(s, i, j) == [s EXCEPT ![i] = s[j]]

\* line 125, the swap function of rand.Shuffle
Swap(s, i, j) == [s EXCEPT ![i] = s[j], ![j] = s[i]]

\* the random draws of the shuffle: js[i] is rand.IntN(i+1), 1-based
ShuffleChoices(n) == {js \in [1..n -> 1..n] : \A i \in 1..n : js[i] <= i}

RECURSIVE ShuffleFrom(_, _, _)
ShuffleFrom(s, js, i) ==
    IF i > Len(s) THEN s ELSE ShuffleFrom(Swap(s, i, js[i]), js, i + 1)

Shuffle(s, js) == ShuffleFrom(s, js, 1)

selectNodeNoAvoid(ns, active, js) ==
    IF Len(ns) = 0
    THEN [nodes |-> ns, nodeActive |-> active, ret |-> NoNode]
    ELSE LET sh == Shuffle(ns, js)
         IN  [nodes |-> sh, nodeActive |-> sh[1], ret |-> sh[1]]

selectNode(ns, active, js) ==
    IF Len(ns) = 0
    THEN [nodes |-> ns, nodeActive |-> active, ret |-> NoNode]
    ELSE LET sh == Shuffle(ns, js)
             differing == {i \in 1..Len(sh) : sh[i] # active}
         IN  IF differing # {}
             THEN [nodes |-> sh, nodeActive |-> sh[Min(differing)],
                   ret |-> sh[Min(differing)]]
             ELSE [nodes |-> sh, nodeActive |-> sh[1], ret |-> sh[1]]

\* ---- Ping: classification (lines 310-318) ----
PingSuccessUpTo500(resp, status) ==
    resp /\ status >= MinSuccessStatus /\ status <= MinFailureStatus

PingSuccess(resp, status) ==
    resp /\ status >= MinSuccessStatus /\ status < MinFailureStatus

\* the pingResult Ping builds for an outcome of the request (lines 284-318)
PingResult(o) ==
    [success |-> PingSuccess(o.resp, o.status),
     statusCode |-> IF o.resp THEN o.status ELSE 0,
     err |-> o.err,
     resp |-> o.resp]

\* ---- stopProxies (lines 193-201): the Proxy visited after a Stop ----
stopProxiesNextAbort(i, err) == IF err THEN created + 1 ELSE i + 1

stopProxiesNext(i, err) == i + 1

\* ---- Init: the state when startProxies is entered ----
Init ==
    /\ phase = "starting"
    /\ startPort = InitialStartPort
    /\ created = 0
    /\ Port = [p \in Proxies |-> 0]
    /\ nodes = [p \in Proxies |-> <<>>]
    /\ nodeActive = [p \in Proxies |-> NoNode]
    /\ process = [p \in Proxies |-> Nil]
    /\ healthy = [p \in Proxies |-> FALSE]
    /\ lastPingResult = [p \in Proxies |-> NilResult]
    /\ pc = [p \in Proxies |-> "none"]
    /\ sidx = 0
    /\ spc = "wait"
    /\ srow = FALSE
    /\ procs = [p \in Proxies |-> <<>>]
    /\ selected = [p \in Proxies |-> NoNode]
    /\ lastCall = [p \in Proxies |-> "none"]
    /\ killFailed = FALSE
    /\ ticks = 0
    /\ attempted = {}
    /\ stopErrs = {}
    /\ fired = [p \in Proxies |-> 0]
    /\ logLine = [p \in Proxies |-> "none"]
    /\ startedSince = [p \in Proxies |-> FALSE]
    /\ lastNew = NoCall
    /\ Domain = [p \in Proxies |-> ""]
    /\ loops = [p \in Proxies |-> 0]
    /\ cmd = NoCmd
    /\ ret = NoRet

\* ---- Start (lines 143-164) ----
\* a Start that forgets the active node when the launch fails
StartClearsActiveOnFailure(ns, active, k, canLaunch) ==
    IF Len(ns) = 0 \/ ~canLaunch
    THEN [launched |-> FALSE, nodeActive |-> NoNode, node |-> NoNode]
    ELSE [launched |-> TRUE, nodeActive |-> ns[k], node |-> ns[k]]

\* k is the random index of line 149, canLaunch the outcome of cmd.Start().
Start(ns, active, k, canLaunch) ==
    IF Len(ns) = 0 \/ ~canLaunch
    THEN [launched |-> FALSE, nodeActive |-> active, node |-> NoNode]
    ELSE [launched |-> TRUE, nodeActive |-> ns[k], node |-> ns[k]]

\* the random indices Start can draw
StartChoices(ns) == IF Len(ns) = 0 THEN {0} ELSE 1..Len(ns)

\* Start on Proxy p: a launched process takes a free slot of the host and
\* becomes the handle of the Proxy (lines 155-161)
ApplyStart(p, st) ==
    IF st.launched
    THEN /\ Launched < MaxPid
         /\ procs' = [procs EXCEPT ![p] = Append(@, [node |-> st.node, alive |-> TRUE])]
         /\ process' = [process EXCEPT ![p] = Len(procs[p]) + 1]
    ELSE UNCHANGED <<process, procs>>

\* ---- New, accepted (lines 79-114) ----
\* The Proxy becomes Proxy p; ns is what getNodes returned, js and k are the
\* random draws of selectNode and Start, canLaunch the outcome of cmd.Start().
\* lines 82-114: what New does once it has taken its port
NewTail(p, ns, js, k, canLaunch) ==
    LET sel == selectNode(ns, NoNode, js)
        st == Start(sel.nodes, sel.nodeActive, k, canLaunch)
    IN
    /\ nodes' = [nodes EXCEPT ![p] = sel.nodes]
    /\ selected' = [selected EXCEPT ![p] = sel.ret]
    /\ nodeActive' = [nodeActive EXCEPT ![p] = st.nodeActive]
    /\ ApplyStart(p, st)
    /\ lastCall' = [lastCall EXCEPT ![p] = "Start"]
    /\ startedSince' = [startedSince EXCEPT ![p] = TRUE]

NewAccepted(p, ns, js, k, canLaunch) ==
    LET sel == selectNode(ns, NoNode, js)
        st == Start(sel.nodes, sel.nodeActive, k, canLaunch)
    IN
    /\ Port' = [Port EXCEPT ![p] = startPort]
    /\ startPort' = NextStartPort(startPort)
    /\ nodes' = [nodes EXCEPT ![p] = sel.nodes]
    /\ selected' = [selected EXCEPT ![p] = sel.ret]
    /\ nodeActive' = [nodeActive EXCEPT ![p] = st.nodeActive]
    /\ ApplyStart(p, st)
    /\ lastCall' = [lastCall EXCEPT ![p] = "Start"]
    /\ startedSince' = [startedSince EXCEPT ![p] = TRUE]

\* ---- PingConstantly (lines 166-199) ----
\* The call takes pingerMu, starts the goroutine of the probe loop and
\* returns, which releases pingerMu (the deferred Unlock of line 168).
PingConstantly(p) == loops' = [loops EXCEPT ![p] = @ + 1]

\* ---- startProxies, one iteration (root.go 206-216): New + PingConstantly ----
startProxiesOk ==
    /\ phase = "starting"
    /\ created < NumProxies
    /\ \E inst \in Installations, ns \in NodeLists :
         /\ ValidConfig(inst.name, inst.domain, CheckEndpoint(inst.domain))
         /\ lastNew' = NewReturn(inst.name, inst.domain,
                                 CheckEndpoint(inst.domain), FALSE)
         /\ LET p == created + 1 IN
            \E js \in ShuffleChoices(Len(ns)), canLaunch \in BOOLEAN :
            \E k \in StartChoices(ns) :
              /\ NewAccepted(p, ns, js, k, canLaunch)
              /\ Domain' = [Domain EXCEPT ![p] = inst.domain]
              /\ PingConstantly(p)
              /\ pc' = [pc EXCEPT ![p] = "idle"]
              /\ created' = p
    /\ UNCHANGED <<phase, healthy, lastPingResult, sidx, spc, killFailed, ticks,
                   attempted, stopErrs>>
    /\ srow' = srow
    /\ UNCHANGED <<fired, logLine>>
    /\ UNCHANGED <<cmd, ret>>

\* New rejects the installation (lines 69-77): startProxies returns the error
\* (root.go 209-211) and runRootCommand returns it (root.go 162-164).
startProxiesFail ==
    /\ phase = "starting"
    /\ created < NumProxies
    /\ \E inst \in Installations :
         /\ ~ValidConfig(inst.name, inst.domain, CheckEndpoint(inst.domain))
         /\ lastNew' = NewReturn(inst.name, inst.domain,
                                 CheckEndpoint(inst.domain), TRUE)
    /\ phase' = "aborted"
    /\ UNCHANGED <<startPort, created, Port, nodes, nodeActive, process, healthy,
                   lastPingResult, pc, sidx, spc, procs, selected, lastCall,
                   killFailed, ticks, attempted, stopErrs>>
    /\ srow' = srow
    /\ UNCHANGED <<fired, logLine, startedSince>>
    /\ UNCHANGED <<Domain, loops, cmd, ret>>

\* startProxies returns the list; startWebserver calls PacServer.Serve
\* (root.go 161-169)
startProxiesDone ==
    /\ phase = "starting"
    /\ created = NumProxies
    /\ phase' = "serving"
    /\ UNCHANGED <<startPort, created, Port, nodes, nodeActive, process, healthy,
                   lastPingResult, pc, sidx, spc, procs, selected, lastCall,
                   killFailed, ticks, attempted, stopErrs>>
    /\ srow' = srow
    /\ UNCHANGED <<fired, logLine, startedSince, lastNew>>
    /\ UNCHANGED <<Domain, loops, cmd, ret>>

\* PacServer.Serve blocks until a first signal arrives (part_002 67-74); then
\* runRootCommand registers its own signal handler and runs the TUI
\* (root.go 171-182)
ServeReturns ==
    /\ phase = "serving"
    /\ phase' = "running"
    /\ srow' = srow
    /\ UNCHANGED <<startPort, created, Port, nodes, nodeActive, process, healthy,
                   lastPingResult, pc, sidx, spc, procs, selected, lastCall,
                   killFailed, ticks, attempted, stopErrs>>
    /\ UNCHANGED <<fired, logLine, startedSince, lastNew>>
    /\ UNCHANGED <<Domain, loops, cmd, ret>>

\* ---- the probe loop of Proxy p (PingConstantly, lines 174-197) ----

\* A response can only come through a tunnel process of this Proxy that is
\* alive on its port; a transport error is always possible.
CanHappen(p, o) == o.resp => AliveOf(p) # {}

\* Ping, lines 320-332: the state-change line logged for a probe outcome,
\* given p.healthy and whether p.lastPingResult is nil
StateChangeLine(success, wasHealthy, first) ==
    IF success
    THEN IF ~wasHealthy \/ first THEN "healthy" ELSE "none"
    ELSE IF wasHealthy \/ first THEN "unhealthy" ELSE "none"

\* Ping that leaves p.healthy set when the probe fails
PingKeepsHealthy(p, o) ==
    /\ healthy' = [healthy EXCEPT ![p] = @ \/ PingResult(o).success]
    /\ lastPingResult' = [lastPingResult EXCEPT ![p] = PingResult(o)]
    /\ logLine' = [logLine EXCEPT ![p] =
                     StateChangeLine(PingResult(o).success, healthy[p],
                                     lastPingResult[p] = NilResult)]
    /\ lastCall' = [lastCall EXCEPT ![p] = "Ping"]

\* Ping (lines 283-337) on Proxy p with outcome o of the request
Ping(p, o) ==
    /\ healthy' = [healthy EXCEPT ![p] = PingResult(o).success]
    /\ lastPingResult' = [lastPingResult EXCEPT ![p] = PingResult(o)]
    /\ logLine' = [logLine EXCEPT ![p] =
                     StateChangeLine(PingResult(o).success, healthy[p],
                                     lastPingResult[p] = NilResult)]
    /\ lastCall' = [lastCall EXCEPT ![p] = "Ping"]

\* line 178: the ticker fired; Ping runs only on a Proxy with nodes
ProbeDueAlways(ns) == TRUE

ProbeDue(ns) == Len(ns) > 0

\* a loop that starts the failover after every probe
AfterPingAlwaysStop(success) == "stop"

\* lines 179-180: the failover starts when Ping has returned false
AfterPing(success) == IF success THEN "idle" ELSE "stop"

\* ticker.C fires on a Proxy with nodes and Ping runs (lines 176-179, 283-337)
LoopPing(p) ==
    /\ Up
    /\ pc[p] = "idle"
    /\ ProbeDue(nodes[p])
    /\ RequestBuilds(Domain[p])
    /\ ticks < MaxTicks
    /\ ticks' = ticks + 1
    /\ fired' = [fired EXCEPT ![p] = @ + 1]
    /\ \E o \in ProbeOutcomes :
         /\ CanHappen(p, o)
         /\ Ping(p, o)
         /\ pc' = [pc EXCEPT ![p] = AfterPing(PingResult(o).success)]
    /\ UNCHANGED <<phase, startPort, created, Port, nodes, nodeActive, process,
                   sidx, spc, procs, selected, killFailed, attempted, stopErrs>>
    /\ srow' = (srow /\ sidx # p)
    /\ UNCHANGED <<startedSince, lastNew>>
    /\ UNCHANGED <<Domain, loops, cmd, ret>>

\* ticker.C fires on a Proxy with nodes whose check endpoint does not parse:
\* Ping logs the error of http.NewRequestWithContext and goes on with the nil
\* request (lines 296-304); http.Client.Do dereferences it and the program
\* panics
LoopPingPanic(p) ==
    /\ Up
    /\ pc[p] = "idle"
    /\ ProbeDue(nodes[p])
    /\ ~RequestBuilds(Domain[p])
    /\ ticks < MaxTicks
    /\ ticks' = ticks + 1
    /\ fired' = [fired EXCEPT ![p] = @ + 1]
    /\ phase' = "panicked"
    /\ UNCHANGED <<startPort, created, Port, nodes, nodeActive, process,
                   healthy, lastPingResult, pc, sidx, spc, procs, selected,
                   lastCall, killFailed, attempted, stopErrs, logLine,
                   startedSince, lastNew, Domain, loops, cmd, ret>>
    /\ srow' = srow

\* ticker.C fires on a Proxy without nodes: the iteration does nothing
\* (lines 176-178)
LoopTickNoNodes(p) ==
    /\ Up
    /\ pc[p] = "idle"
    /\ ~ProbeDue(nodes[p])
    /\ ticks < MaxTicks
    /\ ticks' = ticks + 1
    /\ fired' = [fired EXCEPT ![p] = @ + 1]
    /\ UNCHANGED <<phase, startPort, created, Port, nodes, nodeActive, process,
                   healthy, lastPingResult, pc, sidx, spc, procs, selected,
                   lastCall, killFailed, attempted, stopErrs, logLine,
                   startedSince, lastNew>>
    /\ srow' = srow
    /\ UNCHANGED <<Domain, loops, cmd, ret>>

\* Stop, line 202: the handle is nil, nothing to stop
LoopStopNil(p) ==
    /\ Up
    /\ pc[p] = "stop"
    /\ process[p] = Nil
    /\ pc' = [pc EXCEPT ![p] = "select"]
    /\ lastCall' = [lastCall EXCEPT ![p] = "Stop"]
    /\ UNCHANGED <<phase, startPort, created, Port, nodes, nodeActive, process,
                   healthy, lastPingResult, sidx, spc, procs, selected,
                   killFailed, ticks, attempted, stopErrs>>
    /\ srow' = (srow /\ sidx # p)
    /\ UNCHANGED <<fired, logLine, lastNew>>
    /\ startedSince' = [startedSince EXCEPT ![p] = FALSE]
    /\ UNCHANGED <<Domain, loops, cmd, ret>>

\* Stop, line 202: the handle is not nil
LoopStopCheck(p) ==
    /\ Up
    /\ pc[p] = "stop"
    /\ process[p] # Nil
    /\ pc' = [pc EXCEPT ![p] = "kill"]
    /\ UNCHANGED <<phase, startPort, created, Port, nodes, nodeActive, process,
                   healthy, lastPingResult, sidx, spc, procs, selected, lastCall,
                   killFailed, ticks, attempted, stopErrs>>
    /\ srow' = (srow /\ sidx # p)
    /\ UNCHANGED <<fired, logLine, lastNew>>
    /\ startedSince' = [startedSince EXCEPT ![p] = FALSE]
    /\ UNCHANGED <<Domain, loops, cmd, ret>>

\* p.process.Kill() (line 208) kills the process behind the handle
Kill(p) == [procs EXCEPT ![p][process[p]].alive = FALSE]

\* Stop, lines 206-211: Kill succeeds
LoopStopKill(p) ==
    /\ Up
    /\ pc[p] = "kill"
    /\ process[p] # Nil
    /\ procs' = Kill(p)
    /\ pc' = [pc EXCEPT ![p] = "clear"]
    /\ UNCHANGED <<phase, startPort, created, Port, nodes, nodeActive, process,
                   healthy, lastPingResult, sidx, spc, selected, lastCall,
                   killFailed, ticks, attempted, stopErrs>>
    /\ srow' = (srow /\ sidx # p)
    /\ UNCHANGED <<fired, logLine, startedSince, lastNew>>
    /\ UNCHANGED <<Domain, loops, cmd, ret>>

\* Stop, lines 208-211: Kill returns an error, Stop returns it and
\* PingConstantly logs it (lines 183-185)
LoopStopKillErr(p) ==
    /\ Up
    /\ pc[p] = "kill"
    /\ process[p] # Nil
    /\ killFailed' = TRUE
    /\ ticks' = ticks
    /\ pc' = [pc EXCEPT ![p] = "select"]
    /\ lastCall' = [lastCall EXCEPT ![p] = "Stop"]
    /\ UNCHANGED <<phase, startPort, created, Port, nodes, nodeActive, process,
                   healthy, lastPingResult, sidx, spc, procs, selected,
                   attempted, stopErrs>>
    /\ srow' = (srow /\ sidx # p)
    /\ UNCHANGED <<fired, logLine, startedSince, lastNew>>
    /\ UNCHANGED <<Domain, loops, cmd, ret>>

\* Stop, lines 206-208: the other goroutine has cleared the handle since the
\* nil check; p.process.Pid dereferences nil and the program panics
LoopStopPanic(p) ==
    /\ Up
    /\ pc[p] = "kill"
    /\ process[p] = Nil
    /\ phase' = "panicked"
    /\ UNCHANGED <<startPort, created, Port, nodes, nodeActive, process, healthy,
                   lastPingResult, pc, sidx, spc, procs, selected, lastCall,
                   killFailed, ticks, attempted, stopErrs>>
    /\ srow' = (srow /\ sidx # p)
    /\ UNCHANGED <<fired, logLine, startedSince, lastNew>>
    /\ UNCHANGED <<Domain, loops, cmd, ret>>

\* Stop, lines 213-216
LoopStopClear(p) ==
    /\ Up
    /\ pc[p] = "clear"
    /\ process' = [process EXCEPT ![p] = Nil]
    /\ healthy' = [healthy EXCEPT ![p] = FALSE]
    /\ pc' = [pc EXCEPT ![p] = "select"]
    /\ lastCall' = [lastCall EXCEPT ![p] = "Stop"]
    /\ UNCHANGED <<phase, startPort, created, Port, nodes, nodeActive,
                   lastPingResult, sidx, spc, procs, selected, killFailed, ticks,
                   attempted, stopErrs>>
    /\ srow' = (srow /\ sidx # p)
    /\ UNCHANGED <<fired, logLine, startedSince, lastNew>>
    /\ UNCHANGED <<Domain, loops, cmd, ret>>

\* p.selectNode() (line 186)
LoopSelectNode(p) ==
    /\ Up
    /\ pc[p] = "select"
    /\ \E js \in ShuffleChoices(Len(nodes[p])) :
         LET sel == selectNode(nodes[p], nodeActive[p], js) IN
         /\ nodes' = [nodes EXCEPT ![p] = sel.nodes]
         /\ nodeActive' = [nodeActive EXCEPT ![p] = sel.nodeActive]
         /\ selected' = [selected EXCEPT ![p] = sel.ret]
    /\ pc' = [pc EXCEPT ![p] = "start"]
    /\ lastCall' = [lastCall EXCEPT ![p] = "selectNode"]
    /\ UNCHANGED <<phase, startPort, created, Port, process, healthy,
                   lastPingResult, sidx, spc, procs, killFailed, ticks, attempted,
                   stopErrs>>
    /\ srow' = (srow /\ sidx # p)
    /\ UNCHANGED <<fired, logLine, startedSince, lastNew>>
    /\ UNCHANGED <<Domain, loops, cmd, ret>>

\* p.Start() (lines 187-190)
LoopStart(p) ==
    /\ Up
    /\ pc[p] = "start"
    /\ \E k \in StartChoices(nodes[p]), canLaunch \in BOOLEAN :
         LET st == Start(nodes[p], nodeActive[p], k, canLaunch) IN
         /\ nodeActive' = [nodeActive EXCEPT ![p] = st.nodeActive]
         /\ ApplyStart(p, st)
    /\ pc' = [pc EXCEPT ![p] = "idle"]
    /\ lastCall' = [lastCall EXCEPT ![p] = "Start"]
    /\ UNCHANGED <<phase, startPort, created, Port, nodes, healthy,
                   lastPingResult, sidx, spc, selected, killFailed, ticks, attempted,
                   stopErrs>>
    /\ srow' = (srow /\ sidx # p)
    /\ UNCHANGED <<fired, logLine, lastNew>>
    /\ startedSince' = [startedSince EXCEPT ![p] = TRUE]
    /\ UNCHANGED <<Domain, loops, cmd, ret>>

\* ---- shutdown (root.go 175-179 and 187-190): stopProxies, then exit ----

\* a signal arrives while the TUI runs, or the TUI returns
Shutdown ==
    /\ phase = "running"
    /\ phase' = "stopping"
    /\ sidx' = 1
    /\ spc' = "stop"
    /\ UNCHANGED <<startPort, created, Port, nodes, nodeActive, process, healthy,
                   lastPingResult, pc, procs, selected, lastCall, killFailed, ticks,
                   attempted, stopErrs>>
    /\ srow' = srow
    /\ UNCHANGED <<fired, logLine, startedSince, lastNew>>
    /\ UNCHANGED <<Domain, loops, cmd, ret>>

\* stopProxies calls Stop on the next Proxy, whose handle is nil (line 202)
ShutdownStopNil ==
    /\ phase = "stopping"
    /\ spc = "stop"
    /\ sidx <= created
    /\ process[sidx] = Nil
    /\ attempted' = attempted \cup {sidx}
    /\ sidx' = stopProxiesNext(sidx, FALSE)
    /\ lastCall' = [lastCall EXCEPT ![sidx] = "Stop"]
    /\ UNCHANGED <<phase, startPort, created, Port, nodes, nodeActive, process,
                   healthy, lastPingResult, pc, spc, procs, selected, killFailed, ticks,
                   stopErrs>>
    /\ srow' = FALSE
    /\ UNCHANGED <<fired, logLine, lastNew>>
    /\ startedSince' = [startedSince EXCEPT ![sidx] = FALSE]
    /\ UNCHANGED <<Domain, loops, cmd, ret>>

\* stopProxies calls Stop on the next Proxy, whose handle is not nil
ShutdownStopCheck ==
    /\ phase = "stopping"
    /\ spc = "stop"
    /\ sidx <= created
    /\ process[sidx] # Nil
    /\ attempted' = attempted \cup {sidx}
    /\ spc' = "kill"
    /\ UNCHANGED <<phase, startPort, created, Port, nodes, nodeActive, process,
                   healthy, lastPingResult, pc, sidx, procs, selected, lastCall,
                   killFailed, ticks, stopErrs>>
    /\ srow' = (lastCall[sidx] = "Stop" /\ pc[sidx] \notin {"kill", "clear"})
    /\ UNCHANGED <<fired, logLine, lastNew>>
    /\ startedSince' = [startedSince EXCEPT ![sidx] = FALSE]
    /\ UNCHANGED <<Domain, loops, cmd, ret>>

ShutdownStopKill ==
    /\ phase = "stopping"
    /\ spc = "kill"
    /\ process[sidx] # Nil
    /\ procs' = Kill(sidx)
    /\ spc' = "clear"
    /\ UNCHANGED <<phase, startPort, created, Port, nodes, nodeActive, process,
                   healthy, lastPingResult, pc, sidx, selected, lastCall,
                   killFailed, ticks, attempted, stopErrs>>
    /\ srow' = srow
    /\ UNCHANGED <<fired, logLine, startedSince, lastNew>>
    /\ UNCHANGED <<Domain, loops, cmd, ret>>

\* Kill returns an error: Stop returns it and stopProxies continues
\* (root.go 195-199)
ShutdownStopKillErr ==
    /\ phase = "stopping"
    /\ spc = "kill"
    /\ process[sidx] # Nil
    /\ killFailed' = TRUE
    /\ ticks' = ticks
    /\ stopErrs' = stopErrs \cup {sidx}
    /\ sidx' = stopProxiesNext(sidx, TRUE)
    /\ spc' = "stop"
    /\ lastCall' = [lastCall EXCEPT ![sidx] = "Stop"]
    /\ UNCHANGED <<phase, startPort, created, Port, nodes, nodeActive, process,
                   healthy, lastPingResult, pc, procs, selected, attempted>>
    /\ srow' = FALSE
    /\ UNCHANGED <<fired, logLine, startedSince, lastNew>>
    /\ UNCHANGED <<Domain, loops, cmd, ret>>

\* the probe loop has cleared the handle since the nil check
ShutdownStopPanic ==
    /\ phase = "stopping"
    /\ spc = "kill"
    /\ process[sidx] = Nil
    /\ phase' = "panicked"
    /\ UNCHANGED <<startPort, created, Port, nodes, nodeActive, process, healthy,
                   lastPingResult, pc, sidx, spc, procs, selected, lastCall,
                   killFailed, ticks, attempted, stopErrs>>
    /\ srow' = srow
    /\ UNCHANGED <<fired, logLine, startedSince, lastNew>>
    /\ UNCHANGED <<Domain, loops, cmd, ret>>

ShutdownStopClear ==
    /\ phase = "stopping"
    /\ spc = "clear"
    /\ process' = [process EXCEPT ![sidx] = Nil]
    /\ healthy' = [healthy EXCEPT ![sidx] = FALSE]
    /\ sidx' = stopProxiesNext(sidx, FALSE)
    /\ spc' = "stop"
    /\ lastCall' = [lastCall EXCEPT ![sidx] = "Stop"]
    /\ UNCHANGED <<phase, startPort, created, Port, nodes, nodeActive,
                   lastPingResult, pc, procs, selected, killFailed, ticks, attempted,
                   stopErrs>>
    /\ srow' = FALSE
    /\ UNCHANGED <<fired, logLine, startedSince, lastNew>>
    /\ UNCHANGED <<Domain, loops, cmd, ret>>

\* stopProxies has returned: os.Exit(0), or runRootCommand returns
Exit ==
    /\ phase = "stopping"
    /\ spc = "stop"
    /\ sidx > created
    /\ phase' = "exited"
    /\ UNCHANGED <<startPort, created, Port, nodes, nodeActive, process, healthy,
                   lastPingResult, pc, sidx, spc, procs, selected, lastCall,
                   killFailed, ticks, attempted, stopErrs>>
    /\ srow' = srow
    /\ UNCHANGED <<fired, logLine, startedSince, lastNew>>
    /\ UNCHANGED <<Domain, loops, cmd, ret>>

\* ---- a single Ping call, for every outcome of the request ----

\* A Proxy that New has constructed with a running tunnel: startProxies has
\* appended the first Proxy and its probe loop waits for the ticker.
InitPing ==
    /\ phase = "starting"
    /\ startPort = InitialStartPort + 1
    /\ created = 1
    /\ \E ns \in NodeLists \ {<<>>} :
         /\ nodes = [p \in Proxies |-> IF p = 1 THEN ns ELSE <<>>]
         /\ nodeActive = [p \in Proxies |-> IF p = 1 THEN ns[1] ELSE NoNode]
         /\ selected = [p \in Proxies |-> IF p = 1 THEN ns[1] ELSE NoNode]
         /\ procs = [p \in Proxies |->
                       IF p = 1 THEN <<[node |-> ns[1], alive |-> TRUE]>> ELSE <<>>]
    /\ Port = [p \in Proxies |-> IF p = 1 THEN InitialStartPort ELSE 0]
    /\ process = [p \in Proxies |-> IF p = 1 THEN 1 ELSE Nil]
    /\ healthy = [p \in Proxies |-> FALSE]
    /\ lastPingResult = [p \in Proxies |-> NilResult]
    /\ pc = [p \in Proxies |-> IF p = 1 THEN "idle" ELSE "none"]
    /\ sidx = 0
    /\ spc = "wait"
    /\ srow = FALSE
    /\ lastCall = [p \in Proxies |-> IF p = 1 THEN "Start" ELSE "none"]
    /\ killFailed = FALSE
    /\ ticks = 0
    /\ attempted = {}
    /\ stopErrs = {}
    /\ fired = [p \in Proxies |-> 0]
    /\ logLine = [p \in Proxies |-> "none"]
    /\ startedSince = [p \in Proxies |-> p = 1]
    /\ Domain \in [Proxies -> {"", "gremlin.example.com"} \cup UnparsableDomains]
    /\ Domain[1] # "" /\ Domain[2] = ""
    /\ lastNew = [NoCall EXCEPT !.called = TRUE, !.name = "gremlin",
                                !.domain = Domain[1],
                                !.checkEndpoint = CheckEndpoint(Domain[1]),
                                !.enumerated = TRUE]
    /\ loops = [p \in Proxies |-> IF p = 1 THEN 1 ELSE 0]
    /\ cmd = NoCmd
    /\ ret = NoRet

\* p.Ping(ctx) (lines 283-337) with any status code
PingProbe(p) ==
    /\ Up
    /\ pc[p] = "idle"
    /\ Len(nodes[p]) > 0
    /\ RequestBuilds(Domain[p])
    /\ \E o \in Outcomes(AllStatuses) :
         /\ CanHappen(p, o)
         /\ Ping(p, o)
    /\ UNCHANGED <<phase, startPort, created, Port, nodes, nodeActive, process,
                   pc, sidx, spc, procs, selected, killFailed, ticks, attempted,
                   stopErrs>>
    /\ srow' = srow
    /\ UNCHANGED <<fired, startedSince, lastNew>>
    /\ UNCHANGED <<Domain, loops, cmd, ret>>

\* p.Ping(ctx) on a Proxy whose check endpoint does not parse (lines 296-304)
PingProbePanic(p) ==
    /\ Up
    /\ pc[p] = "idle"
    /\ Len(nodes[p]) > 0
    /\ ~RequestBuilds(Domain[p])
    /\ phase' = "panicked"
    /\ UNCHANGED <<startPort, created, Port, nodes, nodeActive, process,
                   healthy, lastPingResult, pc, sidx, spc, srow, procs,
                   selected, lastCall, killFailed, ticks, attempted, stopErrs,
                   fired, logLine, startedSince, lastNew, Domain, loops, cmd,
                   ret>>

NextPing == \E p \in Proxies : PingProbe(p) \/ PingProbePanic(p)

SpecPing == InitPing /\ [][NextPing]_vars

\* ---- calls of New with any arguments ----

\* the check URLs New is called with
CheckEndpoints == {"", "https://happaapi.gremlin.example.com/healthz"}

\* New (lines 68-115) accepts its arguments and returns the next Proxy
NewCallOk ==
    /\ created < NumProxies
    /\ \E inst \in Installations, checkEndpoint \in CheckEndpoints,
          ns \in NodeLists :
         /\ ValidConfig(inst.name, inst.domain, checkEndpoint)
         /\ lastNew' = NewReturn(inst.name, inst.domain, checkEndpoint, FALSE)
         /\ \E js \in ShuffleChoices(Len(ns)), canLaunch \in BOOLEAN :
            \E k \in StartChoices(ns) :
              NewAccepted(created + 1, ns, js, k, canLaunch)
         /\ Domain' = [Domain EXCEPT ![created + 1] = inst.domain]
    /\ created' = created + 1
    /\ UNCHANGED <<phase, healthy, lastPingResult, pc, sidx, spc, srow,
                   killFailed, ticks, attempted, stopErrs, fired, logLine>>
    /\ UNCHANGED <<loops, cmd, ret>>

\* New rejects its arguments (lines 69-77) and returns nil and an error
NewCallErr ==
    /\ \E inst \in Installations, checkEndpoint \in CheckEndpoints :
         /\ ~ValidConfig(inst.name, inst.domain, checkEndpoint)
         /\ lastNew' = NewReturn(inst.name, inst.domain, checkEndpoint, TRUE)
    /\ UNCHANGED <<phase, startPort, created, Port, nodes, nodeActive, process,
                   healthy, lastPingResult, pc, sidx, spc, srow, procs,
                   selected, lastCall, killFailed, ticks, attempted, stopErrs,
                   fired, logLine, startedSince>>
    /\ UNCHANGED <<Domain, loops, cmd, ret>>

NextNew == NewCallOk \/ NewCallErr

SpecNew == Init /\ [][NextNew]_vars

\* ---- calls of New from several goroutines ----
\* Call p of New runs in a goroutine of its own and constructs Proxy p; its
\* arguments are valid.  Nothing orders line 79 and line 80 of one call with
\* those of another call.

\* line 79: port := startPort
NewReadPort(p) ==
    /\ pc[p] = "none"
    /\ Port' = [Port EXCEPT ![p] = startPort]
    /\ pc' = [pc EXCEPT ![p] = "port"]
    /\ UNCHANGED <<phase, startPort, created, nodes, nodeActive, process,
                   healthy, lastPingResult, sidx, spc, srow, procs, selected,
                   lastCall, killFailed, ticks, attempted, stopErrs, fired,
                   logLine, startedSince, lastNew, Domain, loops, cmd, ret>>

\* line 80: startPort++, an unsynchronised read and write: the value written
\* is one more than the counter holds now, or one more than the value this
\* call has read at line 79
NewIncrementPort(p) ==
    /\ pc[p] = "port"
    /\ startPort' \in {NextStartPort(startPort), NextStartPort(Port[p])}
    /\ pc' = [pc EXCEPT ![p] = "tail"]
    /\ UNCHANGED <<phase, created, Port, nodes, nodeActive, process, healthy,
                   lastPingResult, sidx, spc, srow, procs, selected, lastCall,
                   killFailed, ticks, attempted, stopErrs, fired, logLine,
                   startedSince, lastNew, Domain, loops, cmd, ret>>

\* lines 82-114: the nodes, the Proxy, selectNode, Start; New returns
NewReturns(p) ==
    /\ pc[p] = "tail"
    /\ \E inst \in Installations, ns \in NodeLists :
         /\ ValidConfig(inst.name, inst.domain, CheckEndpoint(inst.domain))
         /\ lastNew' = NewReturn(inst.name, inst.domain,
                                 CheckEndpoint(inst.domain), FALSE)
         /\ Domain' = [Domain EXCEPT ![p] = inst.domain]
         /\ \E js \in ShuffleChoices(Len(ns)), canLaunch \in BOOLEAN :
            \E k \in StartChoices(ns) :
              NewTail(p, ns, js, k, canLaunch)
    /\ pc' = [pc EXCEPT ![p] = "returned"]
    /\ created' = created + 1
    /\ UNCHANGED <<phase, startPort, Port, healthy, lastPingResult, sidx, spc,
                   srow, killFailed, ticks, attempted, stopErrs, fired,
                   logLine, loops, cmd, ret>>

NextNewRace ==
    \E p \in Proxies : NewReadPort(p) \/ NewIncrementPort(p) \/ NewReturns(p)

SpecNewRace == Init /\ [][NextNewRace]_vars

Loop(p) ==
    \/ LoopPing(p)
    \/ LoopPingPanic(p)
    \/ LoopTickNoNodes(p)
    \/ LoopStopNil(p)
    \/ LoopStopCheck(p)
    \/ LoopStopKill(p)
    \/ LoopStopKillErr(p)
    \/ LoopStopPanic(p)
    \/ LoopStopClear(p)
    \/ LoopSelectNode(p)
    \/ LoopStart(p)

Next ==
    \/ startProxiesOk
    \/ startProxiesFail
    \/ startProxiesDone
    \/ ServeReturns
    \/ \E p \in Proxies : Loop(p)
    \/ Shutdown
    \/ ShutdownStopNil
    \/ ShutdownStopCheck
    \/ ShutdownStopKill
    \/ ShutdownStopKillErr
    \/ ShutdownStopPanic
    \/ ShutdownStopClear
    \/ Exit

Spec == Init /\ [][Next]_vars

\* ---- the probe loops with nodes that stay reachable or unreachable ----

\* The nodes a tunnel reaches the check endpoint through, for ever: node
\* names are interchangeable and a node list starts with "n1", so every Proxy
\* with nodes has a reachable candidate.
Reachable == {"n1"}

\* The tunnel process listening on the port of Proxy p: the oldest one that
\* is alive, since a later `tsh ssh` finds the port taken.
Serving(p) == Min(AliveOf(p))

\* what http.Client.Do returns for a probe of Proxy p (line 304)
ProbeOutcome(p) ==
    IF AliveOf(p) # {} /\ procs[p][Serving(p)].node \in Reachable
    THEN [resp |-> TRUE, status |-> 200, err |-> FALSE]
    ELSE [resp |-> FALSE, status |-> 0, err |-> TRUE]

\* ticker.C fires on a Proxy with nodes and Ping runs (lines 176-179); the
\* ticker fires again and again
LiveTick(p) ==
    /\ Up
    /\ pc[p] = "idle"
    /\ ProbeDue(nodes[p])
    /\ RequestBuilds(Domain[p])
    /\ Ping(p, ProbeOutcome(p))
    /\ pc' = [pc EXCEPT ![p] =
                AfterPing(PingResult(ProbeOutcome(p)).success)]
    /\ UNCHANGED <<phase, startPort, created, Port, nodes, nodeActive, process,
                   sidx, spc, srow, procs, selected, killFailed, ticks,
                   attempted, stopErrs, fired, startedSince, lastNew, Domain,
                   loops, cmd, ret>>

\* the process table of Proxy p without the processes that have exited, and
\* the handle of p in that table
Running(p) == SelectSeq(procs[p], LAMBDA e : e.alive)

RunningHandle(p) ==
    IF process[p] = Nil THEN Nil
    ELSE Cardinality({i \in AliveOf(p) : i <= process[p]})

\* number of tunnel processes of all Proxies that are alive
AliveCount == Sum([p \in Proxies |-> Cardinality(AliveOf(p))], Proxies)

\* p.Start() (lines 187-190) with the random index k and the outcome
\* canLaunch of cmd.Start(); the host forgets the exited processes of p
LiveStartWith(p, k, canLaunch) ==
    /\ Up
    /\ pc[p] = "start"
    /\ LET st == Start(nodes[p], nodeActive[p], k, canLaunch) IN
       /\ nodeActive' = [nodeActive EXCEPT ![p] = st.nodeActive]
       /\ IF st.launched
          THEN /\ AliveCount < MaxPid
               /\ procs' = [procs EXCEPT ![p] =
                              Append(Running(p), [node |-> st.node, alive |-> TRUE])]
               /\ process' = [process EXCEPT ![p] = Len(Running(p)) + 1]
          ELSE /\ procs' = [procs EXCEPT ![p] = Running(p)]
               /\ process' = [process EXCEPT ![p] = RunningHandle(p)]
    /\ pc' = [pc EXCEPT ![p] = "idle"]
    /\ lastCall' = [lastCall EXCEPT ![p] = "Start"]
    /\ startedSince' = [startedSince EXCEPT ![p] = TRUE]
    /\ UNCHANGED <<phase, startPort, created, Port, nodes, healthy,
                   lastPingResult, sidx, spc, srow, selected, killFailed, ticks,
                   attempted, stopErrs, fired, logLine, lastNew, Domain, loops,
                   cmd, ret>>

LiveStart(p) ==
    \E k \in StartChoices(nodes[p]), canLaunch \in BOOLEAN :
      LiveStartWith(p, k, canLaunch)

\* Start draws a reachable node and the launch succeeds
LiveStartReachable(p) ==
    \E k \in StartChoices(nodes[p]) :
      /\ k # 0
      /\ nodes[p][k] \in Reachable
      /\ LiveStartWith(p, k, TRUE)

\* Stop, lines 208-211: Kill returns an error, once in a behaviour
LiveStopKillErr(p) ==
    /\ ~killFailed
    /\ LoopStopKillErr(p)

LiveLoop(p) ==
    \/ LiveTick(p)
    \/ LoopStopNil(p)
    \/ LoopStopCheck(p)
    \/ LoopStopKill(p)
    \/ LiveStopKillErr(p)
    \/ LoopStopClear(p)
    \/ LoopSelectNode(p)
    \/ LiveStart(p)

\* startProxies on an installation whose check endpoint parses
LiveStartProxies ==
    /\ startProxiesOk
    /\ RequestBuilds(Domain'[created + 1])

\* startProxies constructs the Proxies of a valid configuration and the probe
\* loops run; what the main goroutine does afterwards (the PAC server, the
\* TUI) does not touch a Proxy and is left out, and no shutdown is requested.
NextLive ==
    \/ LiveStartProxies
    \/ \E p \in Proxies : LiveLoop(p)

\* Every probe loop keeps running, and the random index of Start (line 149)
\* falls on a reachable node, with a launch that succeeds, again and again.
FairLive ==
    \A p \in Proxies : WF_vars(LiveLoop(p)) /\ SF_vars(LiveStartReachable(p))

SpecLive == Init /\ [][NextLive]_vars /\ FairLive

\* ---- properties ----

\* C1: in every reachable state at most one tunnel process launched by a
\* Proxy is alive, also when Kill returns an error or a launch fails.
C1_AtMostOneTunnelProcess ==
    \A p \in Proxies : Cardinality(AliveOf(p)) <= 1

\* C2: when the failover path calls Start, the preceding Stop has completed:
\* the old tunnel process is terminated and the handle is nil.
C2_StopCompletesBeforeStart ==
    \A p \in Proxies : pc[p] = "start" => (process[p] = Nil /\ AliveOf(p) = {})

\* C3: the ports of the constructed Proxies are pairwise distinct, and the
\* port of a constructed Proxy never changes.
PortsDistinct ==
    \A p, q \in 1..created : p # q => Port[p] # Port[q]

PortsStable ==
    \A p \in 1..created : Port'[p] = Port[p]

C3_PortsUniqueAndStable == [][PortsDistinct' /\ PortsStable]_vars

C3_Witness ==
    /\ created = NumProxies
    /\ \E p \in Proxies : Len(procs[p]) >= 2 /\ pc[p] = "idle"
    /\ Port[1] # Port[2]

\* C4: selectNode on at least 2 distinct candidates never returns the node
\* that was active before the call; on exactly 1 candidate it returns that
\* candidate; on 0 candidates it returns the empty node and changes nothing.
SelectNodeContract(p, candidates, active) ==
    /\ Cardinality(Range(candidates)) >= 2 =>
         selected'[p] # active /\ selected'[p] \in Range(candidates)
    /\ Len(candidates) = 1 => selected'[p] = candidates[1]
    /\ Len(candidates) = 0 =>
         selected'[p] = NoNode /\ nodes'[p] = <<>> /\ nodeActive'[p] = active

C4_SelectNodeAvoidsActive ==
    [][\A p \in Proxies :
         /\ (pc[p] = "select" /\ pc'[p] = "start") =>
              SelectNodeContract(p, nodes[p], nodeActive[p])
         /\ (pc[p] = "none" /\ pc'[p] = "idle") =>
              SelectNodeContract(p, nodes'[p], NoNode)]_vars

C4_Witness ==
    \E p \in Proxies :
      /\ pc[p] = "start"
      /\ Len(procs[p]) >= 1
      /\ Cardinality(Range(nodes[p])) >= 2
      /\ selected[p] = nodeActive[p]
      /\ selected[p] # procs[p][Len(procs[p])].node

\* C5: the failover starts the new tunnel against the node that selectNode
\* returned, so with at least 2 distinct candidates the new tunnel targets a
\* node different from the one the previous tunnel targeted.
C5_FailoverStartsSelectedNode ==
    [][\A p \in Proxies :
         (pc[p] = "start" /\ Len(procs'[p]) > Len(procs[p])) =>
           /\ procs'[p][process'[p]].node = selected[p]
           /\ (Cardinality(Range(nodes[p])) >= 2 /\ Len(procs[p]) >= 1) =>
                procs'[p][process'[p]].node # procs[p][Len(procs[p])].node]_vars

\* C6: a probe is classified successful exactly when a response was received
\* and its status code s satisfies 200 <= s < 500.
C6_ProbeClassification ==
    \A p \in Proxies :
      lastPingResult[p] # NilResult =>
        /\ lastPingResult[p].success <=>
             (lastPingResult[p].resp /\ lastPingResult[p].statusCode >= 200
                /\ lastPingResult[p].statusCode < 500)
        /\ healthy[p] = lastPingResult[p].success

C6_Witness ==
    \E p \in Proxies :
      /\ lastPingResult[p].resp
      /\ lastPingResult[p].err
      /\ lastPingResult[p].statusCode = 499
      /\ lastPingResult[p].success

\* C7: Stop is idempotent: a Stop called right after a Stop, or on a Proxy
\* whose tunnel was never started, returns no error, leaves no handle and
\* health not Healthy, and the second call changes nothing.
StopReturns(p) ==
    \/ pc[p] \in {"stop", "kill", "clear"} /\ pc'[p] = "select"
    \/ phase = "stopping" /\ sidx = p /\ sidx' # p

StopReturnsErr(p) ==
    \/ pc[p] = "kill" /\ pc'[p] = "select"
    \/ phase = "stopping" /\ sidx = p /\ sidx' # p /\ spc = "kill"

\* the Stop call of stopProxies on p returns, and it was called right after
\* another Stop call on p had returned
SecondStopReturns(p) ==
    /\ phase = "stopping" /\ sidx = p /\ sidx' # p
    /\ IF spc = "stop"
       THEN lastCall[p] = "Stop" /\ pc[p] \notin {"kill", "clear"}
       ELSE srow

NeverStarted(p) == Len(procs[p]) = 0

C7_StopIdempotent ==
    [][\A p \in 1..created :
         /\ (StopReturns(p) /\ NeverStarted(p)) =>
              (~StopReturnsErr(p) /\ process'[p] = Nil /\ ~healthy'[p])
         /\ SecondStopReturns(p) =>
              /\ ~StopReturnsErr(p)
              /\ process'[p] = Nil
              /\ ~healthy'[p]
              /\ process'[p] = process[p] /\ healthy'[p] = healthy[p]]_vars

\* C8: once the Stop that stopProxies called on a Proxy has returned, the
\* probe loop of that Proxy takes no further step, and the handle and the
\* health of the Proxy never change again.
C8_StopCancelsProbeLoop ==
    [][\A p \in 1..created :
         (phase = "stopping" /\ sidx > p) =>
           (pc'[p] = pc[p] /\ process'[p] = process[p] /\ healthy'[p] = healthy[p])]_vars

\* C9: when the process exits after the shutdown path, no Proxy has a live
\* tunnel process, provided the Kill calls succeeded.
C9_NoTunnelAtExit ==
    (phase = "exited" /\ ~killFailed) => \A p \in Proxies : AliveOf(p) = {}

\* C10: stopProxies calls Stop on every Proxy of the list, also after a Stop
\* that returned an error.
C10_TeardownIndependent ==
    /\ phase = "stopping" => \A q \in 1..created : q < sidx => q \in attempted
    /\ phase = "exited" => attempted = 1..created

C10_Witness ==
    /\ phase = "exited"
    /\ \E e \in stopErrs : \E q \in attempted : q > e

\* C11: when Stop returns, with or without an error, the tunnel handle of the
\* Proxy is nil; in particular after a Kill call that failed.
C11_StopClearsHandle ==
    [][\A p \in 1..created : StopReturns(p) => process'[p] = Nil]_vars

\* the ticker of p fires and Ping runs on p in this step
PingStep(p) ==
    fired'[p] = fired[p] + 1 /\ ProbeDue(nodes[p]) /\ phase' # "panicked"

\* C12: a Proxy without nodes is constructed by New, and whatever ticks
\* follow, no tunnel process is started for it, its probe loop never enters
\* the failover, it is never probed and it is never Healthy.
C12_NoNodesNoTunnel ==
    \A p \in 1..created :
      Len(nodes[p]) = 0 =>
        /\ procs[p] = <<>>
        /\ process[p] = Nil
        /\ pc[p] = "idle"
        /\ lastPingResult[p] = NilResult
        /\ ~healthy[p]

C12_Witness ==
    \E p \in 1..created :
      /\ Len(nodes[p]) = 0
      /\ fired[p] = MaxTicks
      /\ lastNew.called /\ ~lastNew.err
      /\ phase = "exited"

\* C13: a completed probe sets the health to its outcome and replaces the
\* last probe result; after a failed probe the Proxy is not Healthy in any
\* state, through the Stop, the node selection and the Start of the failover,
\* until a successful probe completes, and only that makes it Healthy.
C13_HealthFollowsProbe ==
    [][\A p \in 1..created :
         /\ PingStep(p) =>
              /\ lastPingResult'[p] # NilResult
              /\ healthy'[p] = lastPingResult'[p].success
         /\ (lastPingResult'[p] # NilResult /\ ~lastPingResult'[p].success) =>
              ~healthy'[p]
         /\ pc'[p] \in {"stop", "kill", "clear", "select", "start"} => ~healthy'[p]
         /\ (healthy'[p] /\ ~healthy[p]) =>
              (PingStep(p) /\ lastPingResult'[p].success)]_vars

C13_Witness ==
    \E p \in 1..created :
      /\ fired[p] = 2
      /\ Len(procs[p]) >= 2
      /\ healthy[p]
      /\ lastPingResult[p].success
      /\ logLine[p] = "healthy"
      /\ ~killFailed

\* C14: a probe logs a state-change line exactly when it is the first probe
\* of the Proxy or its outcome differs from the health held just before it;
\* of a run of consecutive probes with the same outcome the first logs a
\* line and the others log none.
C14_StateChangeLogged ==
    [][\A p \in 1..created :
         PingStep(p) =>
           LET out == lastPingResult'[p].success
               first == lastPingResult[p] = NilResult
               sameAsPrevious == ~first /\ out = lastPingResult[p].success
           IN
           /\ (logLine'[p] # "none") <=> (first \/ out # healthy[p])
           /\ sameAsPrevious => logLine'[p] = "none"
           /\ ~sameAsPrevious => logLine'[p] # "none"]_vars

\* no Stop call is between its nil check and its return on Proxy p
NoStopInProgress(p) ==
    /\ pc[p] \notin {"kill", "clear"}
    /\ ~(phase = "stopping" /\ sidx = p /\ spc \in {"kill", "clear"})

\* C15: a Proxy has a non-nil tunnel handle if and only if its active node
\* is not empty and Start has been called on it more recently than Stop.
C15_HandleIffStartedSinceStop ==
    \A p \in 1..created :
      NoStopInProgress(p) =>
        (process[p] # Nil <=> (nodeActive[p] # NoNode /\ startedSince[p]))

\* C16: the health of a Proxy changes only in a step in which a probe of that
\* Proxy completes: New, Start, selectNode and Stop leave it as it is.
C16_HealthOnlyByProbe ==
    [][\A p \in Proxies : healthy'[p] # healthy[p] => PingStep(p)]_vars

\* C17: the probe loop probes once right after it is started: when its
\* ticker fires, the Proxy has already been probed.
C17_FirstProbeImmediate ==
    [][\A p \in 1..created :
         PingStep(p) => lastPingResult[p] # NilResult]_vars

\* C18: an installation that New rejects does not end startProxies: the
\* startup is never given up with the error of one installation.
C18_ConfigErrorSkipsOneProxy ==
    ~(phase = "aborted" /\ lastNew.err)

\* New is called in this step
NewStep == lastNew'.called /\ (lastNew' # lastNew \/ created' # created)

\* C19: New returns an error and no Proxy exactly when the name, the domain
\* or the check URL is empty; a rejected call allocates no port, enumerates
\* no nodes and starts no tunnel, so the accepted calls receive consecutive
\* ports whatever calls were rejected in between.
C19_NewRejectsWithoutSideEffect ==
    [][NewStep =>
         /\ lastNew'.err <=>
              (lastNew'.name = "" \/ lastNew'.domain = ""
                 \/ lastNew'.checkEndpoint = "")
         /\ lastNew'.err =>
              /\ created' = created
              /\ startPort' = startPort
              /\ Port' = Port
              /\ ~lastNew'.enumerated
              /\ nodes' = nodes
              /\ procs' = procs /\ process' = process
         /\ ~lastNew'.err =>
              /\ created' = created + 1
              /\ Port'[created'] = InitialStartPort + created]_vars

C19_Witness ==
    /\ lastNew.called /\ ~lastNew.err /\ lastNew.afterErr
    /\ created = NumProxies
    /\ Port[NumProxies] = InitialStartPort + NumProxies - 1
    /\ Len(procs[NumProxies]) = 1

\* Start is called on p in this step, by New or by the failover, on a Proxy
\* with nodes, and launches no process
StartFails(p) ==
    /\ pc[p] \in {"none", "start"} /\ pc'[p] = "idle"
    /\ Len(nodes'[p]) > 0
    /\ Len(procs'[p]) = Len(procs[p])

\* C20: a Start that fails to launch, in New or in the failover, leaves the
\* Proxy without a tunnel handle and is not retried before the next tick;
\* the probe of a tick on a Proxy without a handle fails and sends the loop
\* into the failover, which calls Start again.
C20_LaunchFailureRetriedOnTick ==
    [][\A p \in Proxies :
         /\ StartFails(p) => process'[p] = Nil
         /\ (PingStep(p) /\ process[p] = Nil) => pc'[p] = "stop"]_vars

\* Proxy p has been constructed with a candidate node that is reachable
HasReachableCandidate(p) ==
    pc[p] # "none" /\ Range(nodes[p]) \cap Reachable # {}

\* C21: a Proxy with a candidate node that is and stays reachable eventually
\* becomes Healthy when its probe loop keeps ticking and the random node
\* choice is fair; once Healthy it stays Healthy, no failover starts and
\* its handle and active node do not change.
C21_EventuallyHealthyAndStable ==
    /\ \A p \in Proxies : HasReachableCandidate(p) ~> healthy[p]
    /\ [][\A p \in Proxies :
            healthy[p] =>
              /\ healthy'[p]
              /\ pc'[p] = "idle"
              /\ process'[p] = process[p]
              /\ nodeActive'[p] = nodeActive[p]]_vars

\* a step of the probe loop of Proxy a (tick, probe, failover), or of the
\* Stop that stopProxies has called on a
OperationOn(a) ==
    \/ Loop(a)
    \/ /\ sidx = a
       /\ \/ ShutdownStopNil
          \/ ShutdownStopCheck
          \/ ShutdownStopKill
          \/ ShutdownStopKillErr
          \/ ShutdownStopPanic
          \/ ShutdownStopClear

\* the step leaves Proxy b as it is
Untouched(b) ==
    /\ process'[b] = process[b]
    /\ nodes'[b] = nodes[b]
    /\ nodeActive'[b] = nodeActive[b]
    /\ healthy'[b] = healthy[b]
    /\ Port'[b] = Port[b]

\* C22: a probe, a failover, a launch failure or a Stop of Proxy a leaves
\* handle, candidate list, active node, health and port of every other
\* Proxy b unchanged, and the probe loop of b goes on running after it.
C22_FailuresLocalToOneProxy ==
    [][\A a, b \in 1..created :
         (a # b /\ OperationOn(a)) => (Untouched(b) /\ (Up => Up'))]_vars

\* C23: New calls that interleave never receive the same port, and the
\* port counter advances by exactly one for each accepted New.
C23_PortCounterAtomic ==
    /\ \A p, q \in Proxies :
         (p # q /\ pc[p] # "none" /\ pc[q] # "none") => Port[p] # Port[q]
    /\ startPort = InitialStartPort
                     + Cardinality({p \in Proxies : pc[p] \in {"tail", "returned"}})

\* ---- the PAC file (pacserver, renderPacFile) ----
\* The body is the sequence of its lines; a line is its text with the two
\* values that fmt.Sprintf puts into it.
PacLine(text, domain, port) == [text |-> text, domain |-> domain, port |-> port]

PacHeader == PacLine("function FindProxyForURL(url, host) {", "", 0)

\* line 81, one Proxy
PacClause(p) ==
    PacLine("  if (dnsDomainIs(host, '%s')) { return 'SOCKS5 localhost:%d'; }",
            p.Domain, p.Port)

PacDirect == PacLine("  return 'DIRECT';", "", 0)

PacClose == PacLine("}", "", 0)

\* the loop of lines 80-82 leaves the last Proxy out
renderPacFileDropsLast(proxies) ==
    <<PacHeader>>
      \o [i \in 1..(Len(proxies) - 1) |-> PacClause(proxies[i])]
      \o <<PacDirect, PacClose>>

renderPacFile(proxies) ==
    <<PacHeader>>
      \o [i \in 1..Len(proxies) |-> PacClause(proxies[i])]
      \o <<PacDirect, PacClose>>

PacDomains == {"", "gremlin.example.com", "gollum.example.com"}

PacPorts == InitialStartPort..(InitialStartPort + NumProxies)

\* the Proxies handed to pacserver.New: the first `created` ones
PacProxies == [i \in 1..created |-> [Domain |-> Domain[i], Port |-> Port[i]]]

\* any list of at most NumProxies Proxies, as the test builds them
InitPac ==
    /\ phase = "starting"
    /\ startPort = InitialStartPort
    /\ created \in 0..NumProxies
    /\ Port \in [Proxies -> PacPorts \cup {0}]
    /\ \A p \in Proxies : Port[p] = 0 <=> p > created
    /\ Domain \in [Proxies -> PacDomains]
    /\ \A p \in Proxies : p > created => Domain[p] = ""
    /\ nodes = [p \in Proxies |-> <<>>]
    /\ nodeActive = [p \in Proxies |-> NoNode]
    /\ process = [p \in Proxies |-> Nil]
    /\ healthy = [p \in Proxies |-> FALSE]
    /\ lastPingResult = [p \in Proxies |-> NilResult]
    /\ pc = [p \in Proxies |-> "none"]
    /\ sidx = 0
    /\ spc = "wait"
    /\ srow = FALSE
    /\ procs = [p \in Proxies |-> <<>>]
    /\ selected = [p \in Proxies |-> NoNode]
    /\ lastCall = [p \in Proxies |-> "none"]
    /\ killFailed = FALSE
    /\ ticks = 0
    /\ attempted = {}
    /\ stopErrs = {}
    /\ fired = [p \in Proxies |-> 0]
    /\ logLine = [p \in Proxies |-> "none"]
    /\ startedSince = [p \in Proxies |-> FALSE]
    /\ lastNew = NoCall
    /\ loops = [p \in Proxies |-> 0]
    /\ cmd = NoCmd
    /\ ret = NoRet

\* pacserver.New, line 37: Body: renderPacFile(proxies)
RenderPac ==
    /\ ret = NoRet
    /\ ret' = [of |-> "renderPacFile", body |-> renderPacFile(PacProxies)]
    /\ UNCHANGED <<phase, startPort, created, Port, nodes, nodeActive, process,
                   healthy, lastPingResult, pc, sidx, spc, srow, procs,
                   selected, lastCall, killFailed, ticks, attempted, stopErrs,
                   fired, logLine, startedSince, lastNew, Domain, loops, cmd>>

NextPac == RenderPac

SpecPac == InitPac /\ [][NextPac]_vars

\* C24: the PAC body of n Proxies has exactly n dnsDomainIs clauses, in
\* input order, the i-th naming the i-th Proxy's domain and port, followed by
\* one DIRECT fallback; the body of the empty list has only the fallback.
C24_PacClausesInOrder ==
    ret.of = "renderPacFile" =>
        LET body == ret.body
            IsClause(l) == l.text = PacClause([Domain |-> "", Port |-> 0]).text
            clauses == SelectSeq(body, IsClause)
        IN  /\ Len(body) = created + 3
            /\ Len(clauses) = created
            /\ \A i \in 1..created :
                 /\ body[i + 1] = clauses[i]
                 /\ clauses[i].domain = Domain[i]
                 /\ clauses[i].port = Port[i]
            /\ body[1] = PacHeader
            /\ body[created + 2] = PacDirect
            /\ body[created + 3] = PacClose
            /\ Cardinality({i \in 1..Len(body) : body[i] = PacDirect}) = 1

\* a rendered list of NumProxies Proxies whose first two differ in domain and port
C24_Witness ==
    /\ ret.of = "renderPacFile"
    /\ created = NumProxies
    /\ Domain[1] # Domain[2]
    /\ Port[1] # Port[2]

\* ---- getNodes (lines 220-258) ----
\* A text is the sequence of its characters.
Whitespace == {" ", "\n"}

Alphabet == {"a"} \cup Whitespace

Texts == UNION {[1..n -> Alphabet] : n \in 0..MaxText}

RECURSIVE TrimLeft(_)
TrimLeft(s) ==
    IF s = <<>> THEN s
    ELSE IF Head(s) \in Whitespace THEN TrimLeft(Tail(s)) ELSE s

RECURSIVE TrimRight(_)
TrimRight(s) ==
    IF s = <<>> THEN s
    ELSE IF s[Len(s)] \in Whitespace THEN TrimRight(SubSeq(s, 1, Len(s) - 1)) ELSE s

\* a TrimSpace that returns its argument
TrimSpaceNothing(s) == s

\* strings.TrimSpace
TrimSpace(s) == TrimRight(TrimLeft(s))

\* strings.Split(s, "\n")
RECURSIVE Split(_)
Split(s) ==
    LET breaks == {i \in 1..Len(s) : s[i] = "\n"}
    IN  IF breaks = {} THEN <<s>>
        ELSE <<SubSeq(s, 1, Min(breaks) - 1)>>
               \o Split(SubSeq(s, Min(breaks) + 1, Len(s)))

\* how cmd.Run() can end: err is nil, an *exec.ExitError with its exit code
\* (-1 when a signal ended the command), or another error
TshRuns ==
    [ran : {TRUE}, err : {"nil"}, exitCode : {0}, stdout : Texts, stderr : Texts]
      \cup [ran : {TRUE}, err : {"ExitError"}, exitCode : {-1, 1},
            stdout : Texts, stderr : Texts]
      \cup [ran : {TRUE}, err : {"other"}, exitCode : {0},
            stdout : Texts, stderr : Texts]

GetNodesError(err) == [of |-> "getNodes", nodes |-> <<>>, err |-> err]

getNodes(c) ==
    IF c.err = "other"
    THEN GetNodesError("failed to execute command")
    ELSE LET exitCode == IF c.err = "ExitError" THEN c.exitCode ELSE 0
             stdoutStr == TrimSpace(c.stdout)
             stderrStr == TrimSpace(c.stderr)
         IN  IF exitCode # 0 \/ stderrStr # <<>>
             THEN GetNodesError("command failed")
             ELSE IF stdoutStr = <<>>
             THEN GetNodesError("no nodes found")
             ELSE LET ns == Split(stdoutStr)
                  IN  IF Len(ns) = 0 \/ (Len(ns) = 1 /\ ns[1] = <<>>)
                      THEN GetNodesError("no nodes found")
                      ELSE [of |-> "getNodes", nodes |-> ns, err |-> "nil"]

\* one call of getNodes: the command runs and the function returns
GetNodes ==
    /\ ret = NoRet
    /\ \E c \in TshRuns :
         /\ cmd' = c
         /\ ret' = getNodes(c)
    /\ UNCHANGED <<phase, startPort, created, Port, nodes, nodeActive, process,
                   healthy, lastPingResult, pc, sidx, spc, srow, procs,
                   selected, lastCall, killFailed, ticks, attempted, stopErrs,
                   fired, logLine, startedSince, lastNew, Domain, loops>>

NextNodes == GetNodes

SpecNodes == Init /\ [][NextNodes]_vars

GetNodesSucceeded == ret.err = "nil" /\ Len(ret.nodes) > 0

\* C25 as stated: getNodes returns a non-empty list and no error if and only
\* if the command exits with code 0, writes nothing to its error stream and
\* writes at least one non-empty line to its output; in every other case it
\* returns an error and no nodes.
C25_NodesIffCleanRun ==
    ret.of = "getNodes" =>
        /\ GetNodesSucceeded <=>
             /\ cmd.err = "nil"
             /\ cmd.stderr = <<>>
             /\ \E i \in 1..Len(Split(cmd.stdout)) : Split(cmd.stdout)[i] # <<>>
        /\ ~GetNodesSucceeded => (ret.err # "nil" /\ ret.nodes = <<>>)

\* C25 amended: getNodes returns a non-empty list and no error if and only
\* if the command exits with code 0, its error stream holds nothing but
\* whitespace and its output holds a character that is not whitespace; in
\* every other case it returns an error and no nodes.  The list returned
\* is the output without its leading and trailing whitespace, cut at the
\* newlines.
C25_NodesIffCleanRunTrimmed ==
    ret.of = "getNodes" =>
        /\ GetNodesSucceeded <=>
             /\ cmd.err = "nil"
             /\ \A i \in 1..Len(cmd.stderr) : cmd.stderr[i] \in Whitespace
             /\ \E i \in 1..Len(cmd.stdout) : cmd.stdout[i] \notin Whitespace
        /\ ~GetNodesSucceeded => (ret.err # "nil" /\ ret.nodes = <<>>)
        /\ GetNodesSucceeded =>
             /\ \A i \in 1..Len(ret.nodes) :
                  \A j \in 1..Len(ret.nodes[i]) : ret.nodes[i][j] # "\n"
             /\ ret.nodes[1] # <<>> /\ Head(ret.nodes[1]) \notin Whitespace
             /\ ret.nodes[Len(ret.nodes)] # <<>>

\* two nodes returned although the command has written to its error stream
C25_Witness ==
    /\ ret.of = "getNodes"
    /\ GetNodesSucceeded
    /\ Len(ret.nodes) = 2
    /\ cmd.stderr # <<>>

\* ---- the status table of the dashboard (newStatusCell, countStatus) ----
\* p.Status(): the number of candidates and the health state of Proxy p
Status(p) == [NodeCount |-> Len(nodes[p]), Healthy |-> healthy[p]]

\* a newStatusCell that looks at the health state first
newStatusCellHealthyFirst(status) ==
    IF status.Healthy THEN "Healthy"
    ELSE IF status.NodeCount = 0 THEN "No Nodes"
    ELSE "Unhealthy"

\* lines 135-144
newStatusCell(status) ==
    IF status.NodeCount = 0 THEN "No Nodes"
    ELSE IF status.Healthy THEN "Healthy"
    ELSE "Unhealthy"

\* lines 250-262: the loop over the first n Proxies
RECURSIVE countStatus(_)
countStatus(n) ==
    IF n = 0 THEN [healthy |-> 0, unhealthy |-> 0, noNodes |-> 0]
    ELSE LET c == countStatus(n - 1)
             status == Status(n)
         IN  IF status.NodeCount = 0 THEN [c EXCEPT !.noNodes = @ + 1]
             ELSE IF status.Healthy THEN [c EXCEPT !.healthy = @ + 1]
             ELSE [c EXCEPT !.unhealthy = @ + 1]

\* any Proxies the dashboard can be handed: their candidates and health state
InitStatus ==
    /\ phase = "starting"
    /\ created \in 0..NumProxies
    /\ startPort = InitialStartPort + created
    /\ Port = [p \in Proxies |-> IF p <= created THEN InitialStartPort + p - 1 ELSE 0]
    /\ Domain = [p \in Proxies |-> IF p <= created THEN "gremlin.example.com" ELSE ""]
    /\ nodes \in [Proxies -> NodeLists]
    /\ healthy \in [Proxies -> BOOLEAN]
    /\ \A p \in Proxies : p > created => (nodes[p] = <<>> /\ ~healthy[p])
    /\ nodeActive = [p \in Proxies |-> NoNode]
    /\ process = [p \in Proxies |-> Nil]
    /\ lastPingResult = [p \in Proxies |-> NilResult]
    /\ pc = [p \in Proxies |-> "none"]
    /\ sidx = 0
    /\ spc = "wait"
    /\ srow = FALSE
    /\ procs = [p \in Proxies |-> <<>>]
    /\ selected = [p \in Proxies |-> NoNode]
    /\ lastCall = [p \in Proxies |-> "none"]
    /\ killFailed = FALSE
    /\ ticks = 0
    /\ attempted = {}
    /\ stopErrs = {}
    /\ fired = [p \in Proxies |-> 0]
    /\ logLine = [p \in Proxies |-> "none"]
    /\ startedSince = [p \in Proxies |-> FALSE]
    /\ lastNew = NoCall
    /\ loops = [p \in Proxies |-> 0]
    /\ cmd = NoCmd
    /\ ret = NoRet

\* one rendering of the dashboard: a status cell for each Proxy and the counts
RenderStatus ==
    /\ ret = NoRet
    /\ ret' = [of |-> "status",
               cells |-> [p \in 1..created |-> newStatusCell(Status(p))],
               counts |-> countStatus(created)]
    /\ UNCHANGED <<phase, startPort, created, Port, nodes, nodeActive, process,
                   healthy, lastPingResult, pc, sidx, spc, srow, procs,
                   selected, lastCall, killFailed, ticks, attempted, stopErrs,
                   fired, logLine, startedSince, lastNew, Domain, loops, cmd>>

NextStatus == RenderStatus

SpecStatus == InitStatus /\ [][NextStatus]_vars

\* C26: in the status surface a Proxy with zero candidates is shown as
\* no-nodes and never as healthy, a Proxy with candidates is shown healthy
\* exactly when its health state is Healthy and unhealthy otherwise, and the
\* three counts, which count the Proxies of each class, sum to the number of
\* Proxies.
C26_StatusClasses ==
    ret.of = "status" =>
        LET Class(p) == IF Len(nodes[p]) = 0 THEN "No Nodes"
                        ELSE IF healthy[p] THEN "Healthy" ELSE "Unhealthy"
            Shown(class) == {p \in 1..created : Class(p) = class}
        IN  /\ \A p \in 1..created :
                 /\ ret.cells[p] \in {"No Nodes", "Healthy", "Unhealthy"}
                 /\ Len(nodes[p]) = 0 => ret.cells[p] = "No Nodes"
                 /\ Len(nodes[p]) > 0 =>
                      /\ ret.cells[p] # "No Nodes"
                      /\ ret.cells[p] = "Healthy" <=> healthy[p]
            /\ ret.counts.noNodes = Cardinality(Shown("No Nodes"))
            /\ ret.counts.healthy = Cardinality(Shown("Healthy"))
            /\ ret.counts.unhealthy = Cardinality(Shown("Unhealthy"))
            /\ ret.counts.noNodes + ret.counts.healthy + ret.counts.unhealthy
                 = created

\* a rendering with a Proxy without candidates whose health state is
\* Healthy next to a healthy Proxy with candidates
C26_Witness ==
    /\ ret.of = "status"
    /\ \E p, q \in 1..created :
         /\ Len(nodes[p]) = 0 /\ healthy[p]
         /\ Len(nodes[q]) > 0 /\ healthy[q]

\* how often node n occurs in the list ns
Occurrences(ns, n) == Cardinality({i \in 1..Len(ns) : ns[i] = n})

\* C27: the candidate list of a constructed Proxy is fixed: only the node
\* selection of the failover changes it, and only by permuting it; no step
\* adds or removes a candidate, and a Proxy with zero candidates keeps zero
\* candidates.
C27_CandidatesOnlyPermuted ==
    [][\A p \in 1..created :
         /\ Len(nodes'[p]) = Len(nodes[p])
         /\ \A n \in Nodes : Occurrences(nodes'[p], n) = Occurrences(nodes[p], n)
         /\ nodes'[p] # nodes[p] => (pc[p] = "select" /\ pc'[p] = "start")]_vars

\* a failover has selected a node for a Proxy with two different candidates,
\* and the list is not in the order node enumeration returned it in
C27_Witness ==
    \E p \in 1..created :
      /\ lastCall[p] = "selectNode"
      /\ nodes[p] = <<"n2", "n1">>

\* ---- a caller of the proxy package: New and PingConstantly in any order ----
\* p.PingConstantly() on a constructed Proxy (lines 166-199): the call takes
\* pingerMu, which the call before it has released on its return
PingConstantlyCall(p) ==
    /\ p <= created
    /\ loops[p] < MaxLoops
    /\ PingConstantly(p)
    /\ pc' = [pc EXCEPT ![p] = "idle"]
    /\ UNCHANGED <<phase, startPort, created, Port, nodes, nodeActive, process,
                   healthy, lastPingResult, sidx, spc, srow, procs, selected,
                   lastCall, killFailed, ticks, attempted, stopErrs, fired,
                   logLine, startedSince, lastNew, Domain, cmd, ret>>

NextPinger ==
    \/ NewCallOk
    \/ NewCallErr
    \/ \E p \in Proxies : PingConstantlyCall(p)

SpecPinger == Init /\ [][NextPinger]_vars

\* C28: whatever the number of PingConstantly calls on a Proxy, at most one
\* probe loop is active for it.
C28_AtMostOneProbeLoop ==
    \A p \in Proxies : loops[p] <= 1

\* C29: a probe never crashes the program: whatever the outcome of the
\* request, and also when the request cannot be constructed from the check
\* URL, Ping returns, the Proxy holds the result of the probe, and the
\* program keeps running.
C29_ProbeNeverCrashes ==
    [][/\ phase' # "panicked"
       /\ \E p \in 1..created :
            /\ lastCall'[p] = "Ping"
            /\ lastPingResult'[p] # NilResult]_vars

\* C30: a successful probe triggers no failover: the tunnel handle, the
\* tunnel processes, the active node and the candidate list of the Proxy are
\* as before it, neither Stop nor Start is called, and the loop waits for
\* the next tick.
C30_SuccessfulProbeNoFailover ==
    [][\A p \in 1..created :
         (PingStep(p) /\ lastPingResult'[p].success) =>
            /\ process'[p] = process[p]
            /\ procs'[p] = procs[p]
            /\ nodeActive'[p] = nodeActive[p]
            /\ nodes'[p] = nodes[p]
            /\ lastCall'[p] = "Ping"
            /\ pc'[p] = "idle"]_vars

\* a Proxy after a successful probe: Healthy, its first tunnel process still
\* the only one, its loop waiting for the next tick
C30_Witness ==
    \E p \in 1..created :
      /\ fired[p] >= 1
      /\ lastCall[p] = "Ping"
      /\ lastPingResult[p].success
      /\ healthy[p]
      /\ pc[p] = "idle"
      /\ process[p] # Nil
      /\ Len(procs[p]) = 1

\* C31: whenever the tunnel handle of a Proxy is not nil, the active node of
\* the Proxy is the node the process behind the handle was launched
\* against, also after a failover in which Stop or Start failed.
C31_ActiveNodeIsHandleNode ==
    \A p \in 1..created :
      process[p] # Nil => nodeActive[p] = procs[p][process[p]].node

\* C32: the active node of a Proxy is empty or one of its candidates, and it
\* is empty only if no node has ever been selected or started: the Proxy
\* has no candidate, selectNode has returned no node and no tunnel process
\* has been launched for it.
C32_ActiveNodeIsCandidate ==
    \A p \in 1..created :
      /\ nodeActive[p] \in Range(nodes[p]) \cup {NoNode}
      /\ nodeActive[p] = NoNode =>
           (nodes[p] = <<>> /\ selected[p] = NoNode /\ procs[p] = <<>>)

\* after a tick on each of them: a Proxy without candidates and without
\* active node, and a Proxy on its second tunnel whose active node is a
\* candidate
C32_Witness ==
    \E p, q \in 1..created :
      /\ nodes[p] = <<>> /\ nodeActive[p] = NoNode /\ fired[p] >= 1
      /\ Len(procs[q]) >= 2 /\ nodeActive[q] \in Range(nodes[q])
      /\ ~killFailed

\* C33: when startProxies gives up because New has rejected an installation,
\* no tunnel process started for an earlier installation is alive: every
\* Proxy constructed before the failure has been stopped.
C33_AbortLeavesNoTunnel ==
    phase = "aborted" =>
        \A p \in 1..created : AliveOf(p) = {} /\ process[p] = Nil
====
